---------------------------- MODULE Spec2Model ----------------------------
(***************************************************************************)
(* Model of the bill validation engine, src/validator.py (BillValidator).  *)
(*                                                                         *)
(* One run of BillValidator.load_and_validate is a state machine: the      *)
(* four input tables and the settings are chosen in Init, the loaders, the *)
(* global column check, the per-invoice loop (progress callback, then the  *)
(* check suite) and the return are the actions.  The summary of the GUI,   *)
(* src/gui.py (format_output), and a later call of load_and_validate on    *)
(* the same object are two more actions.                                   *)
(*                                                                         *)
(* Cells of a CSV file are texts ("" is an empty field).  pandas turns     *)
(* them into values: NaN, a string, an int64 or a float64.  Amounts are    *)
(* whole numbers; the products with the percentage are kept in hundredths  *)
(* (x100), which is exact for the amounts used here.                       *)
(***************************************************************************)
EXTENDS Integers, Sequences, FiniteSets, TLC

\* ------------------------------------------------------------------------
\* Bounds of the model
\* ------------------------------------------------------------------------
MaxRows == 3
MaxRefRows == 3
MaxCalls == 2

\* ------------------------------------------------------------------------
\* Texts and values
\* ------------------------------------------------------------------------

\* str.strip() on the texts of the vocabulary
Strip(t) ==
    CASE t = " "     -> ""
      [] t = " C "   -> "C"
      [] t = " abc " -> "abc"
      [] t = " C1 "  -> "C1"
      [] OTHER       -> t

\* the texts float() accepts, with their values
NumLit ==
    ("0" :> 0) @@ ("6" :> 6) @@ ("100" :> 100) @@ ("140" :> 140) @@
    ("150" :> 150) @@ ("160" :> 160) @@ ("300" :> 300) @@ ("1000" :> 1000)

\* Python's order of strings (code point order) on the vocabulary
StrOrder ==
    << "", " ", " C ", " C1 ", " abc ", "0", "100", "100.0", "1000", "140", "150",
       "160", "300", "6", "6.0", "A", "B", "B1", "B2", "B3", "C", "C1", "C2",
       "C3", "Design", "Survey", "W1", "W2", "abc", "any", "blank", "c",
       "coordination", "nan",
       "x", "y" >>

StrRank(t) == CHOOSE i \in 1..Len(StrOrder) : StrOrder[i] = t

\* values of a DataFrame cell
NaN       == [k |-> "nan",   s |-> "", n |-> 0]
StrV(t)   == [k |-> "str",   s |-> t,  n |-> 0]
IntV(v)   == [k |-> "int",   s |-> "", n |-> v]
FloatV(v) == [k |-> "float", s |-> "", n |-> v]

\* pd.isna(val)
IsNa(v) == v.k = "nan"

\* str(val)
PyStr(v) ==
    CASE v.k = "str"   -> v.s
      [] v.k = "int"   -> ToString(v.n)
      [] v.k = "float" -> ToString(v.n) \o ".0"
      [] OTHER         -> "nan"

\* float(val) succeeds
FloatOk(v) == v.k \in {"int", "float"} \/ (v.k = "str" /\ Strip(v.s) \in DOMAIN NumLit)

\* float(val), where it succeeds
FloatOf(v) == IF v.k = "str" THEN NumLit[Strip(v.s)] ELSE v.n

\* pd.isna(val) or str(val).strip() == ''
IsEmptyCell(v) == IsNa(v) \/ Strip(PyStr(v)) = ""

Abs(x) == IF x < 0 THEN -x ELSE x

\* the indices of a sequence, ascending, that satisfy a set membership
RECURSIVE AscSeq(_)
AscSeq(S) ==
    IF S = {} THEN << >>
    ELSE LET m == CHOOSE x \in S : \A y \in S : x <= y
         IN  << m >> \o AscSeq(S \ {m})

\* sorted(set_of_strings)
RECURSIVE Sorted(_)
Sorted(S) ==
    IF S = {} THEN << >>
    ELSE LET m == CHOOSE x \in S : \A y \in S : StrRank(x) <= StrRank(y)
         IN  << m >> \o Sorted(S \ {m})

Range(q) == { q[i] : i \in DOMAIN q }


\* ------------------------------------------------------------------------
\* Reading a CSV file.  A file is [exists, readable, header, rows]: header
\* is the sequence of column names, rows the sequence of rows, each a
\* function from the columns to the text of the cell.  A DataFrame is
\* [columns, index, data]: index is the sequence of the row labels (0, 1,
\* ... for a file) and data maps a label to the row.
\* ------------------------------------------------------------------------

\* the dtype pd.read_csv infers for a column
ColumnDtype(rows, c) ==
    LET texts == { rows[i][c] : i \in DOMAIN rows }
    IN  IF rows = << >> THEN "object"
        ELSE IF \A t \in texts : t \in DOMAIN NumLit THEN "int64"
        ELSE IF \A t \in texts : t = "" \/ t \in DOMAIN NumLit THEN "float64"
        ELSE "object"

ParseCell(t, dtype) ==
    IF t = "" THEN NaN
    ELSE CASE dtype = "int64"   -> IntV(NumLit[t])
           [] dtype = "float64" -> FloatV(NumLit[t])
           [] OTHER             -> StrV(t)

\* pd.read_csv(path)
ReadCsv(file) ==
    [columns |-> file.header,
     index   |-> [i \in 1..Len(file.rows) |-> i - 1],
     data    |-> [idx \in 0..(Len(file.rows) - 1) |->
                    [c \in Range(file.header) |->
                        ParseCell(file.rows[idx + 1][c],
                                  ColumnDtype(file.rows, c))]]]

\* pd.read_csv(path, dtype=str)
ReadCsvStr(file) ==
    [columns |-> file.header,
     index   |-> [i \in 1..Len(file.rows) |-> i - 1],
     data    |-> [idx \in 0..(Len(file.rows) - 1) |->
                    [c \in Range(file.header) |->
                        ParseCell(file.rows[idx + 1][c], "object")]]]

\* pd.to_numeric(series, errors='coerce') on the values of a column,
\* vals a function from row labels to values
ToNumeric(vals) ==
    LET allInt == \A i \in DOMAIN vals : FloatOk(vals[i]) /\ vals[i].k # "float"
    IN  [i \in DOMAIN vals |->
            IF ~FloatOk(vals[i]) THEN NaN
            ELSE IF allInt THEN IntV(FloatOf(vals[i]))
            ELSE FloatV(FloatOf(vals[i]))]

\* series.sum(): NaN is skipped
RECURSIVE SumCost(_, _)
SumCost(data, idxs) ==
    IF idxs = {} THEN 0
    ELSE LET i == CHOOSE x \in idxs : TRUE
         IN  (IF IsNa(data[i]["Cost"]) THEN 0 ELSE data[i]["Cost"].n)
             + SumCost(data, idxs \ {i})

\* defaultdict(list)[k].append(v) and defaultdict(set)[k].add(v)
DictAppend(d, k, v) ==
    IF k \in DOMAIN d THEN [d EXCEPT ![k] = Append(@, v)] ELSE d @@ (k :> << v >>)

DictAdd(d, k, v) ==
    IF k \in DOMAIN d THEN [d EXCEPT ![k] = @ \cup {v}] ELSE d @@ (k :> {v})

\* ------------------------------------------------------------------------
\* Reference loaders
\* ------------------------------------------------------------------------

\* a condition that keeps the cells as they are read
MutCondition(row) ==
    LET cols == { c \in DOMAIN row : ~IsNa(row[c]) }
    IN  [c \in cols |-> PyStr(row[c])]

\* the condition of one row of the exclusion table: its non-blank cells
Condition(row) ==
    LET cols == { c \in DOMAIN row : ~IsEmptyCell(row[c]) }
    IN  [c \in cols |-> Strip(PyStr(row[c]))]

\* the conditions of the rows index[k..], in file order
RECURSIVE Conditions(_, _)
Conditions(excl_df, k) ==
    IF k > Len(excl_df.index) THEN << >>
    ELSE LET row == excl_df.data[excl_df.index[k]]
             condition == Condition(row)
         IN  (IF (\A c \in DOMAIN row : IsNa(row[c])) \/ DOMAIN condition = {}
              THEN << >> ELSE << condition >>) \o Conditions(excl_df, k + 1)

\* a loader that extends the list the object already holds
Mut_load_exclude_patterns(file, old) ==
    IF ~file.exists THEN old
    ELSE IF ~file.readable THEN << >>
    ELSE old \o Conditions(ReadCsvStr(file), 1)

\* load_exclude_patterns: the new value of exclude_conditions
load_exclude_patterns(file, old) ==
    IF ~file.exists THEN old
    ELSE IF ~file.readable THEN << >>
    ELSE Conditions(ReadCsvStr(file), 1)

\* load_allowed_values: the allowed set of a column
AllowedSet(allowed_df, col) ==
    { Strip(PyStr(allowed_df.data[i][col])) :
        i \in { j \in DOMAIN allowed_df.data : ~IsNa(allowed_df.data[j][col]) } } \ {""}

load_allowed_values(file) ==
    IF ~file.exists THEN [raised |-> "FileNotFoundError"]
    ELSE IF ~file.readable THEN [raised |-> "ValueError"]
    ELSE LET allowed_df == ReadCsvStr(file)
         IN  [raised |-> "",
              required_columns |-> allowed_df.columns,
              allowed_dict |-> [col \in Range(allowed_df.columns) |->
                                    AllowedSet(allowed_df, col)]]

\* col.strip().lower() on the header names of the work-code file
LowerStrip(col) ==
    CASE col \in {"Work code", "work code", " WORK CODE "} -> "work code"
      [] col \in {"Work", "WORK", "work"}                 -> "work"
      [] OTHER                                            -> col

\* the last column of the header whose lowered name is key ("" if none)
RECURSIVE FindCol(_, _)
FindCol(header, key) ==
    IF header = << >> THEN ""
    ELSE LET last == header[Len(header)]
         IN  IF LowerStrip(last) = key THEN last
             ELSE FindCol(SubSeq(header, 1, Len(header) - 1), key)

NoIssues ==
    [none |-> TRUE, missing_code_rows |-> << >>, missing_name_rows |-> << >>,
     name_with_multiple_codes |-> << >>]

\* a row number that forgets the header row
MutCsvRowNum(idx) == idx + 1

\* csv_row_num = idx + 2
CsvRowNum(idx) == idx + 2

\* one iteration of the loop of load_work_codes over the reference rows
WorkCodeRow(acc, row, idx, code_col, name_col) ==
    LET csv_row_num  == CsvRowNum(idx)
        code_raw     == row[code_col]
        name_raw     == row[name_col]
        code_missing == IsEmptyCell(code_raw)
        name_missing == IsEmptyCell(name_raw)
        acc1 == IF code_missing
                THEN [acc EXCEPT !.missing_code_rows = Append(@, csv_row_num)]
                ELSE acc
        acc2 == IF name_missing
                THEN [acc1 EXCEPT !.missing_name_rows = Append(@, csv_row_num)]
                ELSE acc1
        code == Strip(PyStr(code_raw))
        name == Strip(PyStr(name_raw))
    IN  IF code_missing \/ name_missing THEN acc2
        ELSE [acc2 EXCEPT
                !.name_occurrences = DictAppend(@, name, csv_row_num),
                !.name_to_codes    = DictAdd(@, name, code),
                !.valid_pairs      = @ \cup { << code, name >> }]

RECURSIVE WorkCodeRows(_, _, _, _, _)
WorkCodeRows(acc, wc_df, k, code_col, name_col) ==
    IF k > Len(wc_df.index) THEN acc
    ELSE WorkCodeRows(
            WorkCodeRow(acc, wc_df.data[wc_df.index[k]], wc_df.index[k],
                        code_col, name_col),
            wc_df, k + 1, code_col, name_col)

\* load_work_codes on a readable file
WorkCodes(wc_df) ==
    LET code_col == FindCol(wc_df.columns, "work code")
        name_col == FindCol(wc_df.columns, "work")
        acc == WorkCodeRows(
                  [missing_code_rows |-> << >>, missing_name_rows |-> << >>,
                   name_occurrences |-> << >>, name_to_codes |-> << >>,
                   valid_pairs |-> {}],
                  wc_df, 1, code_col, name_col)
        multi == { name \in DOMAIN acc.name_to_codes :
                     Cardinality(acc.name_to_codes[name]) > 1 }
        name_multiple_codes ==
            [name \in multi |->
                [codes |-> Sorted(acc.name_to_codes[name]),
                 rows  |-> acc.name_occurrences[name]]]
        issues ==
            [none |-> FALSE,
             missing_code_rows |-> acc.missing_code_rows,
             missing_name_rows |-> acc.missing_name_rows,
             name_with_multiple_codes |-> name_multiple_codes]
    IN  IF code_col = "" \/ name_col = "" THEN [raised |-> "ValueError"]
        ELSE [raised |-> "",
              valid_work_pairs |-> acc.valid_pairs,
              work_code_issues |->
                  IF acc.missing_code_rows # << >>
                     \/ acc.missing_name_rows # << >>
                     \/ multi # {}
                  THEN issues ELSE NoIssues]

load_work_codes(file) ==
    IF ~file.exists THEN [raised |-> "", skipped |-> TRUE]
    ELSE IF ~file.readable THEN [raised |-> "ValueError", skipped |-> FALSE]
    ELSE WorkCodes(ReadCsvStr(file)) @@ [skipped |-> FALSE]

\* ------------------------------------------------------------------------
\* The checks
\* ------------------------------------------------------------------------

\* dict.get(col, set())
DictGet(d, k, default) == IF k \in DOMAIN d THEN d[k] ELSE default

\* the rows of a DataFrame, in index order, whose label satisfies a test
Labels(bill_df) == Range(bill_df.index)

\* a column check that tolerates one missing column
Mut_check_columns_present(required_columns, df_columns) ==
    LET missing == SelectSeq(required_columns,
                             LAMBDA col : col \notin Range(df_columns))
    IN  [ok |-> Len(missing) <= 1, missing |-> missing]

_check_columns_present(required_columns, df_columns) ==
    LET missing == SelectSeq(required_columns,
                             LAMBDA col : col \notin Range(df_columns))
    IN  [ok |-> Len(missing) = 0, missing |-> missing]

\* a row number counted within the rows of the invoice
MutRowNum(bill_df, idx) ==
    (CHOOSE k \in DOMAIN bill_df.index : bill_df.index[k] = idx) - 1 + 2

\* idx + 2, idx a label of bill_df, which keeps the labels of self.df
RowNum(bill_df, idx) == idx + 2

\* a skip test that forgets the whitespace-only cells
MutSkipCell(val) == IsNa(val)

\* the cells _check_numeric_values skips
SkipCell(val) == IsEmptyCell(val)

_check_numeric_values(bill_df) ==
    LET numeric_cols == {"Cost", "Rate per unit", "Quantity"}
        bad(col) == SelectSeq(bill_df.index,
                        LAMBDA idx : /\ ~SkipCell(bill_df.data[idx][col])
                                     /\ ~FloatOk(bill_df.data[idx][col]))
        cols == { col \in numeric_cols \cap Range(bill_df.columns) :
                    bad(col) # << >> }
        violations == [col \in cols |->
                          [k \in DOMAIN bad(col) |->
                              RowNum(bill_df, bad(col)[k])]]
    IN  [ok |-> cols = {}, details |-> violations]

\* an override that tests the wrong token
MutBlankAllowed(allowed_dict, col) == "any" \in DictGet(allowed_dict, col, {})

\* 'blank' in self.allowed_dict.get(col, set())
BlankAllowed(allowed_dict, col) == "blank" \in DictGet(allowed_dict, col, {})

_check_no_missing_values(bill_df, required_columns, allowed_dict) ==
    LET empty_indices(col) ==
            SelectSeq(bill_df.index,
                      LAMBDA idx : IsEmptyCell(bill_df.data[idx][col]))
        cols == { col \in Range(required_columns) \cap Range(bill_df.columns) :
                    /\ ~BlankAllowed(allowed_dict, col)
                    /\ empty_indices(col) # << >> }
        missing == [col \in cols |->
                       [k \in DOMAIN empty_indices(col) |->
                           RowNum(bill_df, empty_indices(col)[k])]]
    IN  [ok |-> cols = {}, details |-> missing]

\* a test that restricts a column whose allowed set is empty
MutUnrestricted(allowed_set) == "any" \in allowed_set

\* the columns _check_allowed_values skips: 'any' in allowed_set, or
\* not allowed_set
Unrestricted(allowed_set) == "any" \in allowed_set \/ allowed_set = {}

_check_allowed_values(bill_df, allowed_dict) ==
    LET vals(col) ==
            { Strip(PyStr(bill_df.data[idx][col])) :
                idx \in { i \in Labels(bill_df) :
                            ~IsEmptyCell(bill_df.data[i][col]) } }
              \ allowed_dict[col]
        cols == { col \in DOMAIN allowed_dict \cap Range(bill_df.columns) :
                    /\ ~Unrestricted(allowed_dict[col])
                    /\ vals(col) # {} }
        violations == [col \in cols |-> Sorted(vals(col))]
    IN  [ok |-> cols = {}, details |-> violations]

\* match_func of _check_coordination: numeric comparison first, string
\* comparison when float() raises ValueError
match_func(x, val) ==
    IF IsNa(x) THEN FALSE
    ELSE IF FloatOk(x) /\ Strip(val) \in DOMAIN NumLit
         THEN FloatOf(x) = NumLit[Strip(val)]
         ELSE Strip(PyStr(x)) = val

\* the rows matched by one of the conditions k, k + 1, ...
RECURSIVE ExcludeMask(_, _, _)
ExcludeMask(bill_df, conditions, k) ==
    IF k > Len(conditions) THEN {}
    ELSE LET condition == conditions[k]
             cond_mask ==
                 IF ~(DOMAIN condition \subseteq Range(bill_df.columns)) THEN {}
                 ELSE { idx \in Labels(bill_df) :
                          \A col \in DOMAIN condition :
                              match_func(bill_df.data[idx][col], condition[col]) }
         IN  cond_mask \cup ExcludeMask(bill_df, conditions, k + 1)

\* a base that keeps the coordination rows
MutBaseMask(labels, exclude_mask, coord_mask) == labels \ exclude_mask

\* base_mask = ~exclude_mask & ~coord_mask
BaseMask(labels, exclude_mask, coord_mask) == (labels \ exclude_mask) \ coord_mask

\* a strict comparison with the tolerance
MutPassed(diff, tolerance) == diff < 100 * tolerance

\* passed = diff <= self.tolerance, diff in hundredths
Passed(diff, tolerance) == diff <= 100 * tolerance

\* a coordination code is any code that starts with C
MutIsCoordCode(code) == Strip(PyStr(code)) \in {"C", "C1", "C2", "C3"}

\* one cell of coord_mask: .astype(str).str.strip() == 'C'
IsCoordCode(code) == Strip(PyStr(code)) = "C"

\* _check_coordination; expected and diff are in hundredths
_check_coordination(bill_df, conditions, percentage, tol) ==
    LET coord_mask == { idx \in Labels(bill_df) :
                          IsCoordCode(bill_df.data[idx]["Work code"]) }
        details == [has_coordination |-> coord_mask # {},
                    base_amount |-> 0, expected |-> 0, actual_coord |-> 0,
                    diff |-> 0, excluded_items |-> << >>]
        actual_coord == SumCost(bill_df.data, coord_mask)
        exclude_mask == ExcludeMask(bill_df, conditions, 1)
        base_mask    == BaseMask(Labels(bill_df), exclude_mask, coord_mask)
        base_sum     == SumCost(bill_df.data, base_mask)
        excluded     == SelectSeq(bill_df.index,
                            LAMBDA idx : idx \in exclude_mask \ coord_mask)
        expected     == base_sum * percentage
        diff         == Abs(expected - 100 * actual_coord)
    IN  IF "Work code" \notin Range(bill_df.columns)
        THEN [raised |-> "KeyError"]
        ELSE IF coord_mask = {}
        THEN [raised |-> "", passed |-> TRUE, details |-> details]
        ELSE IF excluded # << >> /\ "Item" \notin Range(bill_df.columns)
        THEN [raised |-> "KeyError"]
        ELSE [raised |-> "",
              passed |-> Passed(diff, tol),
              details |->
                 [has_coordination |-> TRUE,
                  base_amount  |-> base_sum,
                  expected     |-> expected,
                  actual_coord |-> actual_coord,
                  diff         |-> diff,
                  excluded_items |->
                     [k \in DOMAIN excluded |->
                        [c \in {"Item", "Work code", "Cost"} |->
                            bill_df.data[excluded[k]][c]]]]]

\* one iteration of the loop of _check_work_code_name_pairs
WorkPairRow(details, bill_df, row, idx, valid_work_pairs) ==
    LET code == row["Work code"]
        name == row["Work"]
        code_str == Strip(PyStr(code))
        name_str == Strip(PyStr(name))
        key == code_str \o "|" \o name_str
    IN  IF IsEmptyCell(code)
        THEN [details EXCEPT !.missing_code = Append(@, RowNum(bill_df, idx))]
        ELSE IF IsEmptyCell(name)
        THEN [details EXCEPT !.missing_name = Append(@, RowNum(bill_df, idx))]
        ELSE IF valid_work_pairs # {}
                /\ << code_str, name_str >> \notin valid_work_pairs
        THEN [details EXCEPT !.invalid_pairs = DictAppend(@, key, RowNum(bill_df, idx))]
        ELSE details

RECURSIVE WorkPairRows(_, _, _, _)
WorkPairRows(details, bill_df, k, valid_work_pairs) ==
    IF k > Len(bill_df.index) THEN details
    ELSE WorkPairRows(
            WorkPairRow(details, bill_df, bill_df.data[bill_df.index[k]],
                        bill_df.index[k], valid_work_pairs),
            bill_df, k + 1, valid_work_pairs)

_check_work_code_name_pairs(bill_df, valid_work_pairs) ==
    LET missing_cols ==
            SelectSeq(<< "Work code", "Work" >>,
                      LAMBDA col : col \notin Range(bill_df.columns))
        details ==
            WorkPairRows([missing_code |-> << >>, missing_name |-> << >>,
                          invalid_pairs |-> << >>],
                         bill_df, 1, valid_work_pairs)
    IN  IF missing_cols # << >>
        THEN [ok |-> FALSE, details |-> [missing_columns |-> missing_cols]]
        ELSE [ok |-> /\ Len(details.missing_code) = 0
                     /\ Len(details.missing_name) = 0
                     /\ (valid_work_pairs # {} =>
                            DOMAIN details.invalid_pairs = {}),
              details |-> details]

\* ------------------------------------------------------------------------
\* load_and_validate as a state machine
\* ------------------------------------------------------------------------
VARIABLES
    bill_csv,                 \* the file at file_path
    exclude_csv,              \* the file at exclude_path
    allowed_csv,              \* the file at allowed_values_path
    work_code_csv,            \* the file at work_code_path
    coordination_percentage,
    tolerance,
    progress_callback,        \* TRUE iff a callback is passed
    pc,                       \* the position in load_and_validate
    df,
    exclude_conditions,
    allowed_dict,
    required_columns,
    valid_work_pairs,
    work_code_issues,
    bill_numbers,
    total_bills,
    idx,                      \* the loop counter of enumerate(bill_numbers, 1)
    results,                  \* the dict, as the sequence of its items
    progress_calls,           \* the calls the callback has received
    returned,                 \* the report load_and_validate returned
    raised,                   \* the exception load_and_validate raised
    passed_bills,             \* format_output: the invoices shown as PASS
    failed_bills,             \* format_output: the invoices shown as FAIL
    calls,                    \* the number of calls of load_and_validate
    first_outcome             \* what the first call returned or raised

inputs == << bill_csv, exclude_csv, allowed_csv, work_code_csv,
             coordination_percentage, tolerance, progress_callback >>

fields == << df, exclude_conditions, allowed_dict, required_columns,
             valid_work_pairs, work_code_issues >>

locals == << bill_numbers, total_bills, idx, results >>

summary == << passed_bills, failed_bills >>

history == << calls, first_outcome >>

vars == << inputs, fields, locals, pc, progress_calls, returned, raised,
           summary, history >>

NoDf == [columns |-> << >>, index |-> << >>, data |-> << >>]

NoReport == [none |-> TRUE]

NoOutcome == [returned |-> NoReport, raised |-> ""]

\* BillValidator.__init__ and the entry of load_and_validate
Constructed ==
    /\ pc = "load_exclude_patterns"
    /\ df = NoDf
    /\ exclude_conditions = << >>
    /\ allowed_dict = << >>
    /\ required_columns = << >>
    /\ valid_work_pairs = {}
    /\ work_code_issues = NoIssues
    /\ bill_numbers = << >>
    /\ total_bills = 0
    /\ idx = 0
    /\ results = << >>
    /\ progress_calls = << >>
    /\ returned = NoReport
    /\ raised = ""
    /\ passed_bills = << >>
    /\ failed_bills = << >>
    /\ calls = 1
    /\ first_outcome = NoOutcome

Raise(e) ==
    /\ pc' = "raised"
    /\ raised' = e

LoadExcludePatterns ==
    /\ pc = "load_exclude_patterns"
    /\ exclude_conditions' = load_exclude_patterns(exclude_csv, exclude_conditions)
    /\ pc' = "load_allowed_values"
    /\ UNCHANGED << inputs, df, allowed_dict, required_columns, valid_work_pairs,
                    work_code_issues, locals, progress_calls, returned, raised,
                    summary, history >>

LoadAllowedValues ==
    /\ pc = "load_allowed_values"
    /\ LET r == load_allowed_values(allowed_csv)
       IN  IF r.raised # ""
           THEN /\ Raise(r.raised)
                /\ UNCHANGED << allowed_dict, required_columns >>
           ELSE /\ required_columns' = r.required_columns
                /\ allowed_dict' = r.allowed_dict
                /\ pc' = "load_work_codes"
                /\ UNCHANGED raised
    /\ UNCHANGED << inputs, df, exclude_conditions, valid_work_pairs,
                    work_code_issues, locals, progress_calls, returned,
                    summary, history >>

LoadWorkCodes ==
    /\ pc = "load_work_codes"
    /\ LET r == load_work_codes(work_code_csv)
       IN  IF r.raised # ""
           THEN /\ Raise(r.raised)
                /\ UNCHANGED << valid_work_pairs, work_code_issues >>
           ELSE /\ IF r.skipped
                   THEN UNCHANGED << valid_work_pairs, work_code_issues >>
                   ELSE /\ valid_work_pairs' = r.valid_work_pairs
                        /\ work_code_issues' = r.work_code_issues
                /\ pc' = "read_csv"
                /\ UNCHANGED raised
    /\ UNCHANGED << inputs, df, exclude_conditions, allowed_dict,
                    required_columns, locals, progress_calls, returned,
                    summary, history >>

ReadBill ==
    /\ pc = "read_csv"
    /\ IF ~(bill_csv.exists /\ bill_csv.readable)
       THEN /\ Raise("ValueError")
            /\ UNCHANGED df
       ELSE /\ df' = ReadCsv(bill_csv)
            /\ pc' = "columns_check"
            /\ UNCHANGED raised
    /\ UNCHANGED << inputs, exclude_conditions, allowed_dict, required_columns,
                    valid_work_pairs, work_code_issues, locals, progress_calls,
                    returned, summary, history >>

\* df['Contract Bill No'].dropna().unique(): first-seen order
RECURSIVE Unique(_, _, _)
Unique(frame, k, seen) ==
    IF k > Len(frame.index) THEN seen
    ELSE LET v == frame.data[frame.index[k]]["Contract Bill No"]
         IN  Unique(frame, k + 1,
                    IF IsNa(v) \/ v \in Range(seen) THEN seen
                    ELSE Append(seen, v))

ShortReport(missing_cols) ==
    [global_columns_ok |-> FALSE,
     missing_columns    |-> missing_cols,
     exclude_conditions |-> exclude_conditions,
     allowed_dict       |-> allowed_dict,
     work_pairs_checked |-> valid_work_pairs # {},
     work_code_issues   |-> work_code_issues,
     total_bills        |-> 0,
     results            |-> << >>]

FullReport ==
    [global_columns_ok |-> TRUE,
     missing_columns    |-> << >>,
     exclude_conditions |-> exclude_conditions,
     allowed_dict       |-> allowed_dict,
     work_pairs_checked |-> valid_work_pairs # {},
     work_code_issues   |-> work_code_issues,
     total_bills        |-> total_bills,
     results            |-> results,
     tolerance          |-> tolerance]

GlobalColumnCheck ==
    /\ pc = "columns_check"
    /\ LET c == _check_columns_present(required_columns, df.columns)
       IN  IF ~c.ok
           THEN /\ returned' = ShortReport(c.missing)
                /\ pc' = "returned"
                /\ UNCHANGED << bill_numbers, total_bills, idx, raised >>
           ELSE IF "Contract Bill No" \notin Range(df.columns)
           THEN /\ Raise("KeyError")
                /\ UNCHANGED << bill_numbers, total_bills, idx, returned >>
           ELSE /\ bill_numbers' = Unique(df, 1, << >>)
                /\ total_bills' = Len(bill_numbers')
                /\ idx' = 1
                /\ pc' = "loop"
                /\ UNCHANGED << returned, raised >>
    /\ UNCHANGED << inputs, fields, results, progress_calls, summary, history >>

\* a loop that counts from 0: enumerate(bill_numbers) without start=1
MutProgress ==
    /\ pc = "loop"
    /\ idx <= total_bills
    /\ progress_callback
    /\ progress_calls' = Append(progress_calls,
                                << idx - 1, total_bills, bill_numbers[idx] >>)
    /\ pc' = "checks"
    /\ UNCHANGED << inputs, fields, locals, returned, raised, summary, history >>

\* progress_callback(idx, total_bills, bill)
Progress ==
    /\ pc = "loop"
    /\ idx <= total_bills
    /\ progress_callback
    /\ progress_calls' = Append(progress_calls,
                                << idx, total_bills, bill_numbers[idx] >>)
    /\ pc' = "checks"
    /\ UNCHANGED << inputs, fields, locals, returned, raised, summary, history >>

\* a group that takes every row of the table
MutBillDf(frame, bill) ==
    [columns |-> frame.columns, index |-> frame.index, data |-> frame.data]

\* self.df[self.df['Contract Bill No'] == bill].copy()
BillDf(frame, bill) ==
    [columns |-> frame.columns,
     index   |-> SelectSeq(frame.index,
                    LAMBDA i : frame.data[i]["Contract Bill No"] = bill),
     data    |-> frame.data]

\* bill_df['Cost'] = pd.to_numeric(bill_df['Cost'], errors='coerce')
CoerceCost(bill_df) ==
    LET cost == ToNumeric([i \in Labels(bill_df) |-> bill_df.data[i]["Cost"]])
    IN  [bill_df EXCEPT
            !.data = [i \in DOMAIN bill_df.data |->
                        IF i \in Labels(bill_df)
                        THEN [bill_df.data[i] EXCEPT !["Cost"] = cost[i]]
                        ELSE bill_df.data[i]]]

\* results[bill] = value
DictSet(d, k, v) ==
    IF \E i \in DOMAIN d : d[i].bill = k
    THEN [i \in DOMAIN d |-> IF d[i].bill = k THEN [bill |-> k] @@ v ELSE d[i]]
    ELSE Append(d, [bill |-> k] @@ v)

\* the body of the loop after the callback, for the table frame and the
\* rule list conditions
BillResultOn(frame, bill, conditions) ==
    LET bill_df == CoerceCost(BillDf(frame, bill))
        nmv   == _check_no_missing_values(bill_df, required_columns, allowed_dict)
        coord == _check_coordination(bill_df, conditions,
                                     coordination_percentage, tolerance)
        av    == _check_allowed_values(bill_df, allowed_dict)
        num   == _check_numeric_values(bill_df)
        wc    == _check_work_code_name_pairs(bill_df, valid_work_pairs)
    IN  IF "Cost" \notin Range(frame.columns) THEN [raised |-> "KeyError"]
        ELSE IF coord.raised # "" THEN [raised |-> coord.raised]
        ELSE [raised |-> "",
              checks |->
                 [columns_present      |-> TRUE,
                  no_missing_values    |-> nmv.ok,
                  coordination_correct |-> coord.passed,
                  allowed_values       |-> av.ok,
                  numeric_values       |-> num.ok,
                  work_pairs_valid     |-> wc.ok],
              details |->
                 [missing_values       |-> nmv.details,
                  coordination         |-> coord.details,
                  allowed_violations   |-> av.details,
                  numeric_violations   |-> num.details,
                  work_pairs_checked   |-> valid_work_pairs # {},
                  work_pair_violations |-> wc.details]]

\* the body of the loop on self.df with self.exclude_conditions
BillResult(bill) == BillResultOn(df, bill, exclude_conditions)

CheckBill ==
    /\ \/ pc = "checks"
       \/ pc = "loop" /\ idx <= total_bills /\ ~progress_callback
    /\ LET r == BillResult(bill_numbers[idx])
       IN  IF r.raised # ""
           THEN /\ Raise(r.raised)
                /\ UNCHANGED << results, idx >>
           ELSE /\ results' = DictSet(results, bill_numbers[idx],
                                      [checks |-> r.checks, details |-> r.details])
                /\ idx' = idx + 1
                /\ pc' = "loop"
                /\ UNCHANGED raised
    /\ UNCHANGED << inputs, fields, bill_numbers, total_bills, progress_calls,
                    returned, summary, history >>

Return ==
    /\ pc = "loop"
    /\ idx > total_bills
    /\ returned' = FullReport
    /\ pc' = "returned"
    /\ UNCHANGED << inputs, fields, locals, progress_calls, raised, summary,
                    history >>

\* an aggregate that passes an invoice as soon as one check passes
MutAllChecksPass(checks) == \E c \in DOMAIN checks : checks[c]

\* gui.py, format_output: all_checks_pass = all(checks.values())
AllChecksPass(checks) == \A c \in DOMAIN checks : checks[c]

\* gui.py, format_output: the loop over validation_result["results"] that
\* fills passed_bills and failed_bills (nothing is listed when the report is
\* the missing-columns report)
FormatOutput ==
    /\ pc = "returned"
    /\ IF ~returned.global_columns_ok
       THEN /\ passed_bills' = << >>
            /\ failed_bills' = << >>
       ELSE LET res  == returned.results
                pass == SelectSeq(res, LAMBDA r : AllChecksPass(r.checks))
                fail == SelectSeq(res, LAMBDA r : ~AllChecksPass(r.checks))
            IN  /\ passed_bills' = [k \in DOMAIN pass |-> pass[k].bill]
                /\ failed_bills' = [k \in DOMAIN fail |-> fail[k].bill]
    /\ pc' = "formatted"
    /\ UNCHANGED << inputs, fields, locals, progress_calls, returned, raised,
                    history >>

\* load_and_validate is called again on the same BillValidator, with the
\* same files and settings: the fields keep what the earlier call left in
\* them, the locals of the call are new
CallAgain ==
    /\ pc \in {"formatted", "raised"}
    /\ calls < MaxCalls
    /\ calls' = calls + 1
    /\ first_outcome' = IF calls = 1
                        THEN [returned |-> returned, raised |-> raised]
                        ELSE first_outcome
    /\ pc' = "load_exclude_patterns"
    /\ bill_numbers' = << >>
    /\ total_bills' = 0
    /\ idx' = 0
    /\ results' = << >>
    /\ progress_calls' = << >>
    /\ returned' = NoReport
    /\ raised' = ""
    /\ passed_bills' = << >>
    /\ failed_bills' = << >>
    /\ UNCHANGED << inputs, fields >>

\* the steps of one call
RunStep ==
    \/ LoadExcludePatterns
    \/ LoadAllowedValues
    \/ LoadWorkCodes
    \/ ReadBill
    \/ GlobalColumnCheck
    \/ Progress
    \/ CheckBill
    \/ Return

Next ==
    \/ LoadExcludePatterns
    \/ LoadAllowedValues
    \/ LoadWorkCodes
    \/ ReadBill
    \/ GlobalColumnCheck
    \/ Progress
    \/ CheckBill
    \/ Return
    \/ FormatOutput
    \/ CallAgain

\* ------------------------------------------------------------------------
\* Input files
\* ------------------------------------------------------------------------
AllCols ==
    << "Contract Bill No", "Work code", "Work", "Item", "Cost",
       "Rate per unit", "Quantity" >>

Row(bill, code, work, item, cost, rate, qty) ==
    ("Contract Bill No" :> bill) @@ ("Work code" :> code) @@ ("Work" :> work) @@
    ("Item" :> item) @@ ("Cost" :> cost) @@ ("Rate per unit" :> rate) @@
    ("Quantity" :> qty)

Drop(header, cols) == SelectSeq(header, LAMBDA c : c \notin cols)

Restrict(row, header) == [c \in Range(header) |-> row[c]]

File(header, rows) ==
    [exists |-> TRUE, readable |-> TRUE, header |-> header, rows |-> rows]

Missing == [exists |-> FALSE, readable |-> FALSE, header |-> << >>, rows |-> << >>]

Unreadable == [exists |-> TRUE, readable |-> FALSE, header |-> << >>, rows |-> << >>]

\* bill_csv is a file with one of the headers and at most n rows of rowset
BillFrom(headers, rowset, n) ==
    \E h \in headers : \E k \in 0..n : \E rows \in [1..k -> rowset] :
        bill_csv = File(h, [i \in 1..k |-> Restrict(rows[i], h)])

\* an allowed-values file whose five main columns all hold `any`
MainCols == << "Contract Bill No", "Work code", "Work", "Item", "Cost" >>

AllowedAny == File(MainCols, << [c \in Range(MainCols) |-> "any"] >>)

\* Quantity is required as well and restricted to 6
AllowedQty ==
    File(MainCols \o << "Quantity" >>,
         << [c \in Range(MainCols) \cup {"Quantity"} |->
                IF c = "Quantity" THEN "6" ELSE "any"] >>)

\* only Cost and Item are required
AllowedCostItem ==
    File(<< "Cost", "Item" >>, << [c \in {"Cost", "Item"} |-> "any"] >>)

\* only Item is required
AllowedItem == File(<< "Item" >>, << [c \in {"Item"} |-> "any"] >>)

\* a work-code reference with two pairs
RefOk ==
    File(<< "Work code", "Work" >>,
         << ("Work code" :> "W1") @@ ("Work" :> "Survey"),
            ("Work code" :> "C")  @@ ("Work" :> "Design") >>)

RefBadHeader ==
    File(<< "Code", "Work" >>, << ("Code" :> "W1") @@ ("Work" :> "Survey") >>)

InitWith(excludes, alloweds, refs, percentages, tolerances, callbacks) ==
    /\ exclude_csv \in excludes
    /\ allowed_csv \in alloweds
    /\ work_code_csv \in refs
    /\ coordination_percentage \in percentages
    /\ tolerance \in tolerances
    /\ progress_callback \in callbacks
    /\ Constructed

\* ------------------------------------------------------------------------
\* Spec: the orchestration, over bill tables with varying headers
\* ------------------------------------------------------------------------
OrchRows ==
    { Row(b, "W1", "Survey", "x", "100", "6", "6") : b \in {"B1", "B2", ""} }

OrchHeaders ==
    { AllCols, Drop(AllCols, {"Cost"}), Drop(AllCols, {"Quantity"}),
      Drop(AllCols, {"Contract Bill No"}), Drop(AllCols, {"Work code", "Item"}),
      Drop(AllCols, {"Work code"}) }

Init ==
    /\ BillFrom(OrchHeaders, OrchRows, MaxRows) \/ bill_csv = Unreadable
    /\ InitWith({Missing, Unreadable},
                {AllowedAny, AllowedQty, AllowedCostItem, AllowedItem, Missing,
                 Unreadable},
                {Missing, RefOk, RefBadHeader},
                {15}, {10}, BOOLEAN)

Spec == Init /\ [][Next]_vars

\* ------------------------------------------------------------------------
\* Properties of the orchestration
\* ------------------------------------------------------------------------

\* the required columns (the header of the allowed-values table) that the
\* header of the bill table lacks
MissingRequired ==
    { col \in Range(allowed_csv.header) : col \notin Range(bill_csv.header) }

\* C1 - Column short-circuit: when the header of the bill table lacks a
\* required column, no invoice is ever checked, the progress callback is
\* never invoked, an exception can only come from loading the files, and the
\* report returned has global_columns_ok = FALSE, missing_columns = exactly
\* the absent required columns, total_bills = 0 and empty results.
C1_ColumnShortCircuit ==
    MissingRequired # {} =>
        /\ pc \notin {"loop", "checks"}
        /\ results = << >>
        /\ progress_calls = << >>
        /\ pc = "raised" => df = NoDf
        /\ pc = "returned" =>
              /\ returned.global_columns_ok = FALSE
              /\ Range(returned.missing_columns) = MissingRequired
              /\ Len(returned.missing_columns) = Cardinality(MissingRequired)
              /\ returned.total_bills = 0
              /\ returned.results = << >>

\* a short-circuit report for a bill table that has rows with invoice ids
C1_Witness ==
    /\ pc = "returned"
    /\ MissingRequired # {}
    /\ \E i \in DOMAIN bill_csv.rows :
          /\ "Contract Bill No" \in DOMAIN bill_csv.rows[i]
          /\ bill_csv.rows[i]["Contract Bill No"] # ""
    /\ progress_callback

\* C10 (as stated) - Progress callback protocol: the callback is invoked
\* with (k, N, k-th invoice id) for k = 1..N, each invocation after the
\* result of its invoice has been produced, and N times before the report
\* is returned.
C10_AsStated ==
    progress_callback =>
        /\ \A k \in DOMAIN progress_calls :
              progress_calls[k] = << k, total_bills, bill_numbers[k] >>
        /\ Len(progress_calls) <= Len(results)
        /\ (pc = "returned" /\ returned.global_columns_ok) =>
              Len(progress_calls) = returned.total_bills

\* C10 (amended) - the callback is invoked with (k, N, k-th invoice id) for
\* k = 1..N, each invocation before the checks of its invoice are run, when
\* exactly the k - 1 earlier invoices have a result, and N times before the
\* report is returned.
C10_ProgressProtocol ==
    progress_callback =>
        /\ \A k \in DOMAIN progress_calls :
              progress_calls[k] = << k, total_bills, bill_numbers[k] >>
        /\ \A k \in DOMAIN results : results[k].bill = bill_numbers[k]
        /\ Len(results) <= Len(progress_calls)
        /\ Len(progress_calls) <= Len(results) + 1
        /\ pc = "checks" => Len(progress_calls) = Len(results) + 1
        /\ pc \in {"loop", "returned"} => Len(progress_calls) = Len(results)
        /\ (pc = "returned" /\ returned.global_columns_ok) =>
              /\ Len(progress_calls) = returned.total_bills
              /\ Len(returned.results) = returned.total_bills

\* a run with a callback that has processed two invoices and returned
C10_Witness ==
    /\ pc = "returned"
    /\ progress_callback
    /\ returned.global_columns_ok
    /\ Len(progress_calls) = 2

\* SpecLive: calls on bill tables whose header has every required column
\* or lacks one that is not required; load_and_validate runs to its end
\* without waiting for anything, so a call that can take a step takes it
LiveHeaders ==
    { AllCols, Drop(AllCols, {"Cost"}), Drop(AllCols, {"Work code"}) }

InitLive ==
    /\ BillFrom(LiveHeaders, OrchRows, MaxRows)
    /\ InitWith({Missing}, {AllowedCostItem, AllowedItem}, {Missing},
                {15}, {10}, {TRUE})

SpecLive == InitLive /\ [][Next]_vars /\ WF_vars(RunStep)

\* the positions of load_and_validate before the loop over the invoices
BeforeLoop ==
    {"load_exclude_patterns", "load_allowed_values", "load_work_codes",
     "read_csv", "columns_check"}

\* C11 - Fatal errors precede all invoice processing: load_and_validate
\* raises only from a position before the loop over the invoices (loading
\* the references, loading the bill table, the global column check), when no
\* invoice has been checked and the callback has not been invoked.
C11_FatalBeforeLoop ==
    [][pc' = "raised" =>
          /\ pc \in BeforeLoop
          /\ results = << >>
          /\ progress_calls = << >>]_vars

\* the bill table is loaded and its header has every required column
ColumnCheckPasses == pc = "columns_check" /\ MissingRequired = {}

\* the invoice ids of the bill file
SrcInvoiceIds ==
    IF "Contract Bill No" \in Range(bill_csv.header)
    THEN { bill_csv.rows[i]["Contract Bill No"] : i \in DOMAIN bill_csv.rows } \ {""}
    ELSE {}

\* the full report has been returned, with an entry for every invoice id
Assembled ==
    /\ pc = "returned"
    /\ returned.global_columns_ok
    /\ { PyStr(returned.results[k].bill) : k \in DOMAIN returned.results }
          = SrcInvoiceIds

\* C12 - Per-invoice findings never abort: once the references and the bill
\* table are loaded and the header has every required column, the call
\* returns the full report with an entry for every invoice id, whatever the
\* cells hold and whichever other columns the bill table has or lacks.
C12_NeverAborts == ColumnCheckPasses ~> Assembled

\* C16 - Required-column set: a bill table without a Cost column never
\* enters the loop over the invoices, and the report returned for it has
\* global_columns_ok = FALSE with Cost in missing_columns, whether or not
\* Cost is a header of the allowed-values table.
C16_CostAlwaysRequired ==
    "Cost" \notin Range(bill_csv.header) =>
        /\ pc \notin {"loop", "checks"}
        /\ pc \in {"returned", "formatted"} =>
              /\ ~returned.global_columns_ok
              /\ "Cost" \in Range(returned.missing_columns)

\* ------------------------------------------------------------------------
\* SpecCoord: the coordination check, over rows with varying work codes,
\* items and costs, exclusion rules, percentages and tolerances
\* ------------------------------------------------------------------------
CoordRows ==
    { Row("B1", "W1",  "Survey", "x", "1000", "6", "6"),
      Row("B1", "C",   "Design", "x", "150",  "6", "6"),
      Row("B1", "C",   "Design", "x", "160",  "6", "6"),
      Row("B1", "W1",  "Survey", "y", "150",  "6", "6"),
      Row("B1", " C ", "Design", "y", "140",  "6", "6"),
      Row("B1", "W2",  "Survey", "x", "",     "6", "6"),
      Row("B2", "W1",  "Survey", "x", "abc",  "6", "6"),
      Row("B2", "C",   "Design", "x", "0",    "6", "6") }

ExclCols == << "Item", "Work code", "Cost" >>

ExclRow(item, code, cost) ==
    ("Item" :> item) @@ ("Work code" :> code) @@ ("Cost" :> cost)

\* one rule: Item = y
ExcludeItem == File(ExclCols, << ExclRow("y", "", "") >>)

\* two rules, an empty row and a blank row
ExcludeTwo ==
    File(ExclCols,
         << ExclRow("", "", "150"), ExclRow("", "", ""),
            ExclRow(" ", "", ""), ExclRow("y", "W1", "") >>)

\* the exclusion file with the percentage and the tolerance of the run
CoordSettings ==
    { << ExcludeItem, 15, 10 >>, << ExcludeTwo, 50, 0 >> }

InitCoord ==
    /\ BillFrom({AllCols}, CoordRows, MaxRows)
    /\ \E st \in CoordSettings :
          InitWith({st[1]}, {AllowedAny}, {Missing}, {st[2]}, {st[3]}, {TRUE})

SpecCoord == InitCoord /\ [][Next]_vars

\* The source table, for stating the properties of the checks on the texts
\* of the bill file
SrcRows == bill_csv.rows

\* the rows of the invoice with id b
SrcGroup(b) == { i \in DOMAIN SrcRows : SrcRows[i]["Contract Bill No"] = b }

\* the amount of a Cost cell, nothing for a cell that is not a number
SrcCost(i) ==
    IF SrcRows[i]["Cost"] \in DOMAIN NumLit THEN NumLit[SrcRows[i]["Cost"]] ELSE 0

RECURSIVE SrcSum(_)
SrcSum(S) ==
    IF S = {} THEN 0
    ELSE LET i == CHOOSE x \in S : TRUE IN SrcCost(i) + SrcSum(S \ {i})

SrcIsCoord(i) == Strip(SrcRows[i]["Work code"]) = "C"

\* a cell satisfies a (column, value) pair of a rule
SrcPairHolds(cell, val) ==
    /\ cell # ""
    /\ IF cell \in DOMAIN NumLit /\ val \in DOMAIN NumLit
       THEN NumLit[cell] = NumLit[val]
       ELSE Strip(cell) = val

SrcExcluded(i) ==
    \E k \in DOMAIN exclude_conditions :
        \A col \in DOMAIN exclude_conditions[k] :
            /\ col \in DOMAIN SrcRows[i]
            /\ SrcPairHolds(SrcRows[i][col], exclude_conditions[k][col])

SrcCoordRows(b) == { i \in SrcGroup(b) : SrcIsCoord(i) }

SrcBaseRows(b) == { i \in SrcGroup(b) : ~SrcIsCoord(i) /\ ~SrcExcluded(i) }

SrcExcludedRows(b) == { i \in SrcGroup(b) : ~SrcIsCoord(i) /\ SrcExcluded(i) }

\* C2 - Coordination arithmetic: for an invoice with a coordination row,
\* base amount B, actual coordination A, percentage P and tolerance T,
\* coordination_correct is true iff |B*P/100 - A| <= T, and the detail
\* reports expected = B*P/100 and diff = |expected - A| (in hundredths).
C2_CoordinationArithmetic ==
    \A k \in DOMAIN results :
        LET b == PyStr(results[k].bill)
            d == results[k].details.coordination
            B == SrcSum(SrcBaseRows(b))
            A == SrcSum(SrcCoordRows(b))
        IN  SrcCoordRows(b) # {} =>
              /\ results[k].checks.coordination_correct
                   <=> Abs(B * coordination_percentage - 100 * A) <= 100 * tolerance
              /\ d.expected = B * coordination_percentage
              /\ d.diff = Abs(B * coordination_percentage - 100 * A)

\* an invoice whose difference is exactly the tolerance, and passes: base
\* 1000, 15 per cent, coordination 160, tolerance 10
C2_Witness ==
    \E k \in DOMAIN results :
        /\ results[k].details.coordination.has_coordination
        /\ tolerance = 10
        /\ results[k].details.coordination.base_amount = 1000
        /\ results[k].details.coordination.diff = 100 * tolerance
        /\ results[k].checks.coordination_correct

\* C3 - Base-amount partition: for an invoice with a coordination row,
\* actual_coord is the sum of Cost over the rows whose trimmed Work code is
\* C, excluded or not; base_amount is the sum of Cost over the rows that are
\* neither coordination rows nor excluded; excluded_items lists the other
\* rows, so that every row of the invoice is counted exactly once.
C3_BaseAmountPartition ==
    \A k \in DOMAIN results :
        LET b == PyStr(results[k].bill)
            d == results[k].details.coordination
            E == AscSeq(SrcExcludedRows(b))
        IN  SrcCoordRows(b) # {} =>
              /\ d.has_coordination
              /\ d.actual_coord = SrcSum(SrcCoordRows(b))
              /\ d.base_amount = SrcSum(SrcBaseRows(b))
              /\ Len(d.excluded_items) = Len(E)
              /\ \A j \in DOMAIN E :
                    /\ PyStr(d.excluded_items[j]["Item"]) = SrcRows[E[j]]["Item"]
                    /\ PyStr(d.excluded_items[j]["Work code"])
                          = SrcRows[E[j]]["Work code"]
                    /\ IF IsNa(d.excluded_items[j]["Cost"])
                       THEN SrcRows[E[j]]["Cost"] \notin DOMAIN NumLit
                       ELSE d.excluded_items[j]["Cost"].n = SrcCost(E[j])
              /\ Cardinality(SrcCoordRows(b)) + Cardinality(SrcBaseRows(b))
                    + Len(d.excluded_items) = Cardinality(SrcGroup(b))

\* an invoice with a base row, an excluded row and a coordination row that
\* itself matches an exclusion rule
C3_Witness ==
    \E k \in DOMAIN results :
        LET b == PyStr(results[k].bill)
        IN  /\ \E i \in SrcCoordRows(b) : SrcExcluded(i)
            /\ SrcExcludedRows(b) # {}
            /\ SrcBaseRows(b) # {}
            /\ results[k].details.coordination.base_amount > 0

\* C21 - Coordination detail is always complete: for every invoice, with
\* or without a coordination row, the coordination detail carries
\* base_amount = the sum of Cost over the rows that are neither coordination
\* rows nor excluded, and excluded_items lists (Item, Work code, Cost) of
\* exactly the non-coordination rows that match an exclusion rule.
C21_DetailAlwaysComplete ==
    \A k \in DOMAIN results :
        LET b == PyStr(results[k].bill)
            d == results[k].details.coordination
            E == AscSeq(SrcExcludedRows(b))
        IN  /\ d.base_amount = SrcSum(SrcBaseRows(b))
            /\ Len(d.excluded_items) = Len(E)
            /\ \A j \in DOMAIN E :
                  j \in DOMAIN d.excluded_items =>
                      /\ DOMAIN d.excluded_items[j] = {"Item", "Work code", "Cost"}
                      /\ PyStr(d.excluded_items[j]["Item"]) = SrcRows[E[j]]["Item"]
                      /\ PyStr(d.excluded_items[j]["Work code"])
                            = SrcRows[E[j]]["Work code"]

\* ------------------------------------------------------------------------
\* SpecCells: the checks on the cells, over rows with varying Item, Cost,
\* Rate per unit and Quantity cells and several allowed-values tables
\* ------------------------------------------------------------------------
CellRows ==
    { Row("B1", "W1", "Survey", "A",     "100", "6",   "6"),
      Row("B1", "W1", "Survey", "C",     "abc", "6",   "abc"),
      Row("B1", "W1", "Survey", "",      "",    "",    ""),
      Row("B1", "W1", "Survey", " ",     " ",   "6",   " "),
      Row("B1", "W1", "Survey", " abc ", "100", "6",   "6"),
      Row("B2", "W1", "Survey", "C",     "100", "abc", "6"),
      Row("B2", "W1", "Survey", "C",     "abc", "",    "") }

CellCols == MainCols \o << "Quantity" >>

AllowedRow(item, cost, qty, other) ==
    [c \in Range(CellCols) |->
        CASE c = "Item"     -> item
          [] c = "Cost"     -> cost
          [] c = "Quantity" -> qty
          [] OTHER          -> other]

\* Item in {A, B}; Cost: any; Quantity in {6} or blank
AllowedCells1 ==
    File(CellCols, << AllowedRow("A", "any", "6", "any"),
                      AllowedRow(" B ", "", "blank", "") >>)

\* Item: any or blank; Cost in {100}; Quantity in {6}
AllowedCells2 ==
    File(CellCols, << AllowedRow("any", "100", "6", "any"),
                      AllowedRow("blank", "", " ", "") >>)

\* Item in {A, C}; Cost in {100} or blank; Quantity: any or blank
AllowedCells3 ==
    File(CellCols, << AllowedRow("A", "100", "any", "any"),
                      AllowedRow("C", "blank", "blank", "") >>)

\* Item has no value beneath its header; Cost, Quantity: any
AllowedCells4 ==
    File(CellCols, << AllowedRow("", "any", "any", "any") >>)

InitCells ==
    /\ BillFrom({AllCols}, CellRows, MaxRows)
    /\ InitWith({Missing},
                {AllowedCells1, AllowedCells2, AllowedCells3, AllowedCells4},
                {Missing}, {15}, {10}, {TRUE})

SpecCells == InitCells /\ [][Next]_vars

NumericCols == {"Cost", "Rate per unit", "Quantity"}

\* the spreadsheet row number of the i-th row of the bill file
SrcRowNum(i) == (i - 1) + 2

\* the cell is empty in the source table: missing or whitespace-only
SrcEmpty(i, col) == Strip(SrcRows[i][col]) = ""

\* the text of the cell parses as a number
SrcNumeric(i, col) == Strip(SrcRows[i][col]) \in DOMAIN NumLit

\* the row numbers a detail lists under a column
Listed(detail, col) == IF col \in DOMAIN detail THEN Range(detail[col]) ELSE {}

\* C4 - Numeric conformance: every non-empty cell of Cost, Rate per unit or
\* Quantity that does not parse as a number makes numeric_values false for
\* its invoice and is listed under its column in numeric_violations at its
\* spreadsheet row number.
C4_NumericConformance ==
    \A k \in DOMAIN results :
        \A col \in NumericCols \cap Range(bill_csv.header) :
            \A i \in SrcGroup(PyStr(results[k].bill)) :
                (~SrcEmpty(i, col) /\ ~SrcNumeric(i, col)) =>
                    /\ ~results[k].checks.numeric_values
                    /\ SrcRowNum(i) \in
                          Listed(results[k].details.numeric_violations, col)

\* C5 - An empty cell (missing or whitespace-only) of Cost, Rate per unit
\* or Quantity is never listed in numeric_violations, and numeric_values
\* fails only when the invoice has a non-empty cell that is not a number.
C5_EmptyNotNumericViolation ==
    \A k \in DOMAIN results :
        LET G == SrcGroup(PyStr(results[k].bill))
            cols == NumericCols \cap Range(bill_csv.header)
        IN  /\ \A col \in cols : \A i \in G :
                  SrcEmpty(i, col) =>
                      SrcRowNum(i) \notin
                          Listed(results[k].details.numeric_violations, col)
            /\ ~results[k].checks.numeric_values =>
                  \E col \in cols : \E i \in G : ~SrcEmpty(i, col)
                                                  /\ ~SrcNumeric(i, col)

\* an invoice with a missing and a whitespace-only Quantity cell whose
\* numeric check passes
C5_Witness ==
    \E k \in DOMAIN results :
        LET G == SrcGroup(PyStr(results[k].bill))
        IN  /\ \E i \in G : SrcRows[i]["Quantity"] = ""
            /\ \E i \in G : SrcRows[i]["Quantity"] = " "
            /\ \E i \in G : SrcRows[i]["Cost"] = " "
            /\ results[k].checks.numeric_values

\* the allowed set of a required column, read from the allowed-values file
SrcAllowedSet(col) ==
    { Strip(allowed_csv.rows[i][col]) : i \in DOMAIN allowed_csv.rows } \ {""}

\* C6 - Blank override: for a required column whose allowed set contains
\* blank, no row is ever listed under the column in missing_values, and
\* no_missing_values fails only for an empty cell of a column without blank.
C6_BlankOverride ==
    \A k \in DOMAIN results :
        LET G == SrcGroup(PyStr(results[k].bill))
            d == results[k].details.missing_values
        IN  /\ \A col \in Range(allowed_csv.header) :
                  "blank" \in SrcAllowedSet(col) => col \notin DOMAIN d
            /\ ~results[k].checks.no_missing_values =>
                  \E col \in DOMAIN d : "blank" \notin SrcAllowedSet(col)

\* an invoice with empty cells in two columns that allow blank, and no
\* missing value reported
C6_Witness ==
    \E k \in DOMAIN results :
        LET G == SrcGroup(PyStr(results[k].bill))
        IN  /\ "blank" \in SrcAllowedSet("Quantity")
            /\ "blank" \in SrcAllowedSet("Cost")
            /\ \E i \in G : SrcEmpty(i, "Quantity") /\ SrcEmpty(i, "Cost")
            /\ "Cost" \notin DOMAIN results[k].details.missing_values
            /\ ~results[k].checks.no_missing_values

\* C7 - No-missing-values detail: for a required column without blank the
\* detail lists, in ascending order, exactly the rows of the invoice whose
\* cell is empty after trimming in the source table (a cell with text is
\* never missing), and no_missing_values is true iff the detail is empty.
C7_MissingValuesDetail ==
    \A k \in DOMAIN results :
        LET G == SrcGroup(PyStr(results[k].bill))
            d == results[k].details.missing_values
        IN  /\ \A col \in Range(allowed_csv.header) :
                  "blank" \notin SrcAllowedSet(col) =>
                      (IF col \in DOMAIN d THEN d[col] ELSE << >>)
                        = AscSeq({ SrcRowNum(i) : i \in { j \in G : SrcEmpty(j, col) } })
            /\ results[k].checks.no_missing_values <=> DOMAIN d = {}

\* C8 - Allowed-values membership: for a column whose non-empty allowed set
\* has no `any`, allowed_violations lists exactly the trimmed non-empty
\* cell values of the invoice that are not in the set, each once and
\* sorted; allowed_values is true iff nothing is listed.
C8_AllowedValuesMembership ==
    \A k \in DOMAIN results :
        LET G == SrcGroup(PyStr(results[k].bill))
            d == results[k].details.allowed_violations
            offending(col) ==
                { Strip(SrcRows[i][col]) : i \in { j \in G : ~SrcEmpty(j, col) } }
                    \ SrcAllowedSet(col)
        IN  /\ \A col \in Range(allowed_csv.header) :
                  (SrcAllowedSet(col) # {} /\ "any" \notin SrcAllowedSet(col)) =>
                      (IF col \in DOMAIN d THEN d[col] ELSE << >>)
                        = Sorted(offending(col))
            /\ results[k].checks.allowed_values <=> DOMAIN d = {}

\* the non-empty cell values of a column in a group of rows, trimmed
SrcValues(G, col) ==
    { Strip(SrcRows[i][col]) : i \in { j \in G : ~SrcEmpty(j, col) } }

\* the columns of the allowed-values table with no value beneath the header
EmptySetCols == { col \in Range(allowed_csv.header) : SrcAllowedSet(col) = {} }

\* C20 (as stated) - for a column whose allowed set is empty, every
\* non-empty cell of the column is an offending value: it is listed under
\* the column in allowed_violations and makes allowed_values false.
C20_AsStated ==
    \A k \in DOMAIN results :
        LET G == SrcGroup(PyStr(results[k].bill))
            d == results[k].details.allowed_violations
        IN  \A col \in EmptySetCols :
                SrcValues(G, col) # {} =>
                    /\ ~results[k].checks.allowed_values
                    /\ col \in DOMAIN d
                    /\ d[col] = Sorted(SrcValues(G, col))

\* C20 (amended) - a column whose allowed set is empty is not restricted:
\* it is never listed in allowed_violations, and allowed_values fails only
\* for a column with a non-empty set without `any`.
C20_EmptySetUnrestricted ==
    \A k \in DOMAIN results :
        LET d == results[k].details.allowed_violations
        IN  /\ \A col \in EmptySetCols : col \notin DOMAIN d
            /\ ~results[k].checks.allowed_values =>
                  \E col \in DOMAIN d :
                      SrcAllowedSet(col) # {} /\ "any" \notin SrcAllowedSet(col)
            /\ results[k].checks.allowed_values <=> DOMAIN d = {}

\* an invoice with the Item cells A and C under an empty allowed set of
\* Item, whose allowed-values check passes
C20_Witness ==
    \E k \in DOMAIN results :
        LET G == SrcGroup(PyStr(results[k].bill))
        IN  /\ "Item" \in EmptySetCols
            /\ {"A", "C"} \subseteq SrcValues(G, "Item")
            /\ results[k].checks.allowed_values
            /\ results[k].details.allowed_violations = << >>

\* ------------------------------------------------------------------------
\* SpecExcl: the exclusion matcher, over rows with varying Item and Cost
\* cells and rules on Item, Cost and a column the bill table does not have
\* ------------------------------------------------------------------------
ExclRows ==
    { Row("B1", "C",  "Design", "x",     "150",  "6", "6"),
      Row("B1", "W1", "Survey", "x",     "1000", "6", "6"),
      Row("B1", "W1", "Survey", " abc ", "abc",  "6", "6"),
      Row("B1", "W1", "Survey", "6",     "100",  "6", "6"),
      Row("B1", "W1", "Survey", "",      "abc",  "6", "6"),
      Row("B1", "W1", "Survey", " ",     "100",  "6", "6") }

RuleCols == << "Item", "Cost", "Zone" >>

Rule(item, cost, zone) ==
    ("Item" :> item) @@ ("Cost" :> cost) @@ ("Zone" :> zone)

\* one rule: Cost = abc
ExcludeCostText == File(RuleCols, << Rule("", "abc", "") >>)

\* two rules on Item: Item = abc, Item = 6
ExcludeItems == File(RuleCols, << Rule("abc", "", ""), Rule("6", "", "") >>)

\* two rules that name Zone, which no bill table has, and the rule
\* Item = abc and Cost = 100
ExcludeZone ==
    File(RuleCols, << Rule("", "", "A"), Rule("x", "", "A"),
                      Rule("abc", "100", "") >>)

InitExcl ==
    /\ BillFrom({AllCols}, ExclRows, MaxRows)
    /\ InitWith({ExcludeCostText, ExcludeItems, ExcludeZone}, {AllowedAny},
                {Missing}, {15}, {10}, {TRUE})

SpecExcl == InitExcl /\ [][Next]_vars

\* a value of the frame shows the text of a cell of the file, up to the
\* number format
SameText(v, t) ==
    IF FloatOk(v) /\ t \in DOMAIN NumLit THEN FloatOf(v) = NumLit[t]
    ELSE PyStr(v) = t

\* C15 - Exclusion matching: in an invoice with a coordination row, the
\* rows listed as excluded are exactly the non-coordination rows that
\* satisfy every (column, value) pair of at least one loaded rule, where a
\* pair is satisfied by numeric equality when cell and value both parse as
\* numbers and otherwise by equality of the trimmed cell text with the
\* value; a missing cell satisfies no pair and a rule that names a column
\* the bill table does not have excludes no row.
C15_ExclusionMatching ==
    \A k \in DOMAIN results :
        LET b == PyStr(results[k].bill)
            d == results[k].details.coordination
            rows == { i \in SrcGroup(b) : ~SrcIsCoord(i) }
            E == AscSeq({ i \in rows : SrcExcluded(i) })
        IN  d.has_coordination =>
              /\ Len(d.excluded_items) = Len(E)
              /\ \A j \in DOMAIN E :
                    j \in DOMAIN d.excluded_items =>
                        SameText(d.excluded_items[j]["Item"], SrcRows[E[j]]["Item"])

\* ------------------------------------------------------------------------
\* SpecRef: the work-code reference, over reference tables with varying
\* codes and names
\* ------------------------------------------------------------------------
RefHeaders == { << "Work code", "Work" >> }

UpperHeader == << " WORK CODE ", "WORK" >>

\* a reference whose header is in capitals, with a name under two codes
RefUpper ==
    File(UpperHeader, << (UpperHeader[1] :> "C1") @@ (UpperHeader[2] :> "Survey"),
                         (UpperHeader[1] :> "C2") @@ (UpperHeader[2] :> "Survey") >>)

RefRow(header, code, name) == (header[1] :> code) @@ (header[2] :> name)

RefCodes == {"C1", " C1 ", "C2", ""}

RefNames == {"Survey", "Design", " "}

\* the (code, name) rows of the reference tables: every code and every
\* name, alone and together, without four of the twelve combinations
RefCells ==
    (RefCodes \X RefNames)
        \ { << " C1 ", "Design" >>, << "", "Design" >>, << "C2", " " >>,
            << " C1 ", " " >> }

\* work_code_csv is a file with one of the headers and at most n rows
RefFrom(headers, n) ==
    \E h \in headers : \E k \in 0..n : \E cells \in [1..k -> RefCells] :
        work_code_csv = File(h, [i \in 1..k |-> RefRow(h, cells[i][1], cells[i][2])])

RefBill ==
    File(AllCols,
         << Row("B1", "C1", "Survey", "x", "100", "6", "6"),
            Row("B2", "C2", "Survey", "x", "100", "6", "6") >>)

InitRef ==
    /\ bill_csv = RefBill
    /\ exclude_csv = Missing
    /\ allowed_csv = AllowedAny
    /\ \/ RefFrom(RefHeaders, MaxRefRows)
       \/ work_code_csv \in {Missing, Unreadable, RefBadHeader, RefUpper}
    /\ coordination_percentage = 15
    /\ tolerance = 10
    /\ progress_callback = TRUE
    /\ Constructed

SpecRef == InitRef /\ [][Next]_vars

\* the reference file has been loaded
RefLoaded ==
    /\ pc \notin {"load_exclude_patterns", "load_allowed_values",
                  "load_work_codes", "raised"}
    /\ work_code_csv.exists
    /\ work_code_csv.readable

\* the code and the name of the i-th row of the reference file
SrcRefCode(i) == Strip(work_code_csv.rows[i][work_code_csv.header[1]])

SrcRefName(i) == Strip(work_code_csv.rows[i][work_code_csv.header[2]])

\* the fully-populated rows
SrcRefFull ==
    { i \in DOMAIN work_code_csv.rows : SrcRefCode(i) # "" /\ SrcRefName(i) # "" }

SrcRefCodesOf(name) == { SrcRefCode(i) : i \in { j \in SrcRefFull : SrcRefName(j) = name } }

\* name_with_multiple_codes of the stored issues (none when no issue was
\* found)
NameWithMultipleCodes == work_code_issues.name_with_multiple_codes

\* C9 - Work-code reference self-consistency: after load_work_codes,
\* name_with_multiple_codes holds a name iff the name occurs, among the
\* fully-populated rows, with more than one distinct trimmed code; its
\* entry lists all the codes of the name, sorted, and the row numbers
\* (index + 2) of all the fully-populated rows with the name.
C9_NameWithMultipleCodes ==
    RefLoaded =>
        /\ DOMAIN NameWithMultipleCodes
              = { name \in { SrcRefName(i) : i \in SrcRefFull } :
                    Cardinality(SrcRefCodesOf(name)) > 1 }
        /\ \A name \in DOMAIN NameWithMultipleCodes :
              /\ NameWithMultipleCodes[name].codes = Sorted(SrcRefCodesOf(name))
              /\ NameWithMultipleCodes[name].rows
                    = AscSeq({ SrcRowNum(i) :
                                 i \in { j \in SrcRefFull : SrcRefName(j) = name } })

\* Survey occurs with C1, with C2 and with C1 again: codes [C1, C2] and
\* three rows
C9_Witness ==
    /\ RefLoaded
    /\ "Survey" \in DOMAIN NameWithMultipleCodes
    /\ NameWithMultipleCodes["Survey"].codes = << "C1", "C2" >>
    /\ Len(NameWithMultipleCodes["Survey"].rows) = 3

\* ------------------------------------------------------------------------
\* Properties of repeated calls and of the summary of the GUI
\* ------------------------------------------------------------------------

\* C13 - Idempotence: a later call of load_and_validate on the same
\* BillValidator, with unchanged files and settings, ends as the first call
\* did: it raises the same error or returns the identical report (global
\* outcome, loaded references and diagnostics, invoice ids in order, checks
\* and details of every invoice).
C13_Idempotence ==
    (calls > 1 /\ pc \in {"returned", "formatted", "raised"}) =>
        /\ raised = first_outcome.raised
        /\ returned = first_outcome.returned

\* a second call on an object that holds exclusion rules from the first
\* call, returning a report of two invoices, one of them failing
C13_Witness ==
    /\ calls = 2
    /\ pc = "returned"
    /\ returned.global_columns_ok
    /\ returned.exclude_conditions # << >>
    /\ Len(returned.results) = 2
    /\ \E k \in DOMAIN returned.results :
          ~returned.results[k].checks.coordination_correct
    /\ first_outcome.returned = returned

\* the six named checks of a result
CheckNames ==
    {"columns_present", "no_missing_values", "coordination_correct",
     "allowed_values", "numeric_values", "work_pairs_valid"}

\* C14 - Aggregate verdict: in the summary of a full report, an invoice is
\* counted as passed iff each of its six named checks is true and as failed
\* otherwise; every invoice of the report is in exactly one of the two
\* lists, and the two counts sum to total_bills.
C14_AggregateVerdict ==
    (pc = "formatted" /\ returned.global_columns_ok) =>
        /\ \A k \in DOMAIN returned.results :
              LET r == returned.results[k]
                  all_true == \A c \in CheckNames : r.checks[c]
              IN  /\ DOMAIN r.checks = CheckNames
                  /\ r.bill \in Range(passed_bills) <=> all_true
                  /\ r.bill \in Range(failed_bills) <=> ~all_true
        /\ Range(passed_bills) \cap Range(failed_bills) = {}
        /\ Range(passed_bills) \cup Range(failed_bills)
              = { returned.results[k].bill : k \in DOMAIN returned.results }
        /\ Len(passed_bills) + Len(failed_bills) = returned.total_bills

\* a summary with one passed invoice and one invoice that fails the
\* coordination check only
C14_Witness ==
    /\ pc = "formatted"
    /\ returned.global_columns_ok
    /\ Len(passed_bills) = 1
    /\ Len(failed_bills) = 1
    /\ \E k \in DOMAIN returned.results :
          LET r == returned.results[k]
          IN  /\ ~r.checks.coordination_correct
              /\ \A c \in CheckNames \ {"coordination_correct"} : r.checks[c]

\* ------------------------------------------------------------------------
\* SpecPairs: the work-pair check, over rows with varying Work code and
\* Work cells and several work-code references
\* ------------------------------------------------------------------------
PairRows ==
    { Row("B1", "C1",   "Survey", "x", "100", "6", "6"),
      Row("B1", "C2",   "Survey", "x", "100", "6", "6"),
      Row("B1", " C1 ", "Survey", "x", "100", "6", "6"),
      Row("B1", "",     "Survey", "x", "100", "6", "6"),
      Row("B1", "C1",   "",       "x", "100", "6", "6"),
      Row("B1", "",     "",       "x", "100", "6", "6"),
      Row("B1", " ",    " ",      "x", "100", "6", "6"),
      Row("B2", "C2",   "Design", "x", "100", "6", "6"),
      Row("B2", "C2",   "Survey", "x", "100", "6", "6") }

PairHeader == << "Work code", "Work" >>

\* a reference with the pairs (C1, Survey) and (C2, Design)
RefPairs ==
    File(PairHeader, << RefRow(PairHeader, "C1", "Survey"),
                        RefRow(PairHeader, "C2", "Design") >>)

\* a reference with a header and no row
RefHeaderOnly == File(PairHeader, << >>)

\* a reference whose rows all lack a cell
RefIncomplete ==
    File(PairHeader, << RefRow(PairHeader, "C1", ""),
                        RefRow(PairHeader, "", "Survey") >>)

InitPairs ==
    /\ BillFrom({AllCols}, PairRows, MaxRows)
    /\ InitWith({Missing}, {AllowedAny},
                {Missing, RefPairs, RefHeaderOnly, RefIncomplete},
                {15}, {10}, {TRUE})

SpecPairs == InitPairs /\ [][Next]_vars

\* the valid pairs of the reference file: its fully-populated rows
SrcValidPairs == { << SrcRefCode(i), SrcRefName(i) >> : i \in SrcRefFull }

\* the trimmed (code, name) pair of a bill row
SrcPair(i) == << Strip(SrcRows[i]["Work code"]), Strip(SrcRows[i]["Work"]) >>

\* the key of a pair in invalid_pairs
SrcPairKey(i) == SrcPair(i)[1] \o "|" \o SrcPair(i)[2]

\* the row is complete: neither its Work code nor its Work cell is empty
SrcComplete(i) == ~SrcEmpty(i, "Work code") /\ ~SrcEmpty(i, "Work")

\* C17 - Work-pair validity with a loaded reference: when a work-code
\* reference file was loaded, whatever number of valid pairs it yields,
\* work_pairs_valid is true for an invoice iff every row of the invoice has
\* non-empty Work code and Work cells and its trimmed pair is in the
\* reference's valid-pair set, and every complete row whose pair is not in
\* the set is listed under its code|name key in invalid_pairs; when no
\* reference file was loaded, work_pairs_valid is the emptiness test.
C17_WorkPairValidity ==
    \A k \in DOMAIN results :
        LET G == SrcGroup(PyStr(results[k].bill))
            d == results[k].details.work_pair_violations
        IN  IF work_code_csv.exists
            THEN /\ results[k].checks.work_pairs_valid
                      <=> \A i \in G : SrcComplete(i) /\ SrcPair(i) \in SrcValidPairs
                 /\ \A i \in G :
                       (SrcComplete(i) /\ SrcPair(i) \notin SrcValidPairs) =>
                           /\ SrcPairKey(i) \in DOMAIN d.invalid_pairs
                           /\ SrcRowNum(i) \in Range(d.invalid_pairs[SrcPairKey(i)])
            ELSE results[k].checks.work_pairs_valid
                      <=> \A i \in G : SrcComplete(i)

\* C19 - Work-pair detail lists: for every invoice, missing_code lists
\* exactly the rows of the invoice whose Work code cell is empty and
\* missing_name exactly the rows whose Work cell is empty, by row number; a
\* row in which both cells are empty is in both lists.
C19_MissingLists ==
    \A k \in DOMAIN results :
        LET G == SrcGroup(PyStr(results[k].bill))
            d == results[k].details.work_pair_violations
        IN  /\ d.missing_code
                 = AscSeq({ SrcRowNum(i) : i \in { j \in G : SrcEmpty(j, "Work code") } })
            /\ d.missing_name
                 = AscSeq({ SrcRowNum(i) : i \in { j \in G : SrcEmpty(j, "Work") } })

\* ------------------------------------------------------------------------
\* SpecGroup: the grouping of the rows by invoice id, over rows with
\* varying ids, among them a missing and a whitespace-only one, and an
\* empty Item cell that marks the row in the detail of its group
\* ------------------------------------------------------------------------
GroupRows ==
    { Row(b, "W1", "Survey", item, "100", "6", "6") :
        b \in {"B1", "B2", "", " "}, item \in {"x", ""} }

InitGroup ==
    /\ BillFrom({AllCols}, GroupRows, MaxRows)
    /\ InitWith({Missing}, {AllowedAny}, {Missing}, {15}, {10}, {TRUE})

SpecGroup == InitGroup /\ [][Next]_vars

\* the rows of the bill file whose invoice id is not in the set empty, and
\* their ids in the order of first appearance
RECURSIVE FirstSeen(_, _, _)
FirstSeen(empty, i, seen) ==
    IF i > Len(SrcRows) THEN seen
    ELSE LET b == SrcRows[i]["Contract Bill No"]
         IN  FirstSeen(empty, i + 1,
                       IF b \in empty \/ b \in Range(seen) THEN seen
                       ELSE Append(seen, b))

\* the grouping of a returned full report, where the ids in the set empty
\* count as empty: one entry per distinct non-empty id, in the order of
\* first appearance, total_bills their number, and every row marked by an
\* empty Item cell is listed in the detail of the group of its id and of
\* no other group
GroupingWith(empty) ==
    (pc = "returned" /\ returned.global_columns_ok) =>
        LET ids == FirstSeen(empty, 1, << >>)
            res == returned.results
        IN  /\ Len(res) = Len(ids)
            /\ returned.total_bills = Len(ids)
            /\ \A k \in DOMAIN res :
                  k \in DOMAIN ids =>
                    /\ PyStr(res[k].bill) = ids[k]
                    /\ Listed(res[k].details.missing_values, "Item")
                          = { SrcRowNum(i) :
                                i \in { j \in SrcGroup(ids[k]) : SrcEmpty(j, "Item") } }
            /\ \A i \in DOMAIN SrcRows :
                  SrcEmpty(i, "Item") =>
                      Cardinality({ k \in DOMAIN res :
                          SrcRowNum(i) \in Listed(res[k].details.missing_values, "Item") })
                        = IF SrcRows[i]["Contract Bill No"] \in empty THEN 0 ELSE 1

\* C18 (as stated) - Invoice grouping: the groups partition the rows with a
\* non-empty Contract Bill No, a cell that is missing or whitespace-only
\* being empty; results has one entry per distinct invoice id, total_bills
\* is their number, and the groups are in first-appearance order.
C18_AsStated == GroupingWith({"", " "})

\* C18 (amended) - the groups partition the rows whose Contract Bill No cell
\* is not missing (a whitespace-only id is an invoice id like any other
\* text); results has one entry per distinct id, total_bills is their
\* number, and the groups are in first-appearance order.
C18_InvoiceGrouping == GroupingWith({""})

\* a report whose second invoice appears before the rest of the first, with
\* a row without an invoice id and marked rows in both groups
C18_Witness ==
    /\ pc = "returned"
    /\ returned.global_columns_ok
    /\ Len(returned.results) = 2
    /\ PyStr(returned.results[1].bill) = "B2"
    /\ Listed(returned.results[1].details.missing_values, "Item") # {}
    /\ \E i \in DOMAIN SrcRows :
          SrcRows[i]["Contract Bill No"] = "" /\ SrcEmpty(i, "Item")

\* ------------------------------------------------------------------------
\* SpecAbsent: invoices without a coordination row, with codes and texts
\* that resemble one, under several exclusion files, percentages and
\* tolerances
\* ------------------------------------------------------------------------
AbsentRows ==
    { Row("B1", "C1",  "Design",       "x",            "150",  "6", "6"),
      Row("B1", "c",   "coordination", "coordination", "150",  "6", "6"),
      Row("B1", "W1",  "Survey",       "y",            "1000", "6", "6"),
      Row("B1", "W1",  "Survey",       "x",            "abc",  "6", "6"),
      Row("B2", " C ", "Design",       "x",            "150",  "6", "6"),
      Row("B2", "W1",  "Survey",       "x",            "1000", "6", "6") }

AbsentSettings ==
    { << Missing, 15, 10 >>, << ExcludeItem, 15, 10 >>, << ExcludeTwo, 50, 0 >> }

InitAbsent ==
    /\ BillFrom({AllCols}, AbsentRows, MaxRows)
    /\ \E st \in AbsentSettings :
          InitWith({st[1]}, {AllowedAny}, {Missing}, {st[2]}, {st[3]}, {TRUE})

SpecAbsent == InitAbsent /\ [][Next]_vars

\* the invoice with id b has no row whose trimmed Work code is C
SrcNoCoordination(b) == \A i \in SrcGroup(b) : ~SrcIsCoord(i)

\* C22 - Coordination absent is a pass: for every invoice in which no row
\* has a trimmed Work code exactly equal to C, coordination_correct is true
\* and has_coordination is false, whatever the costs, the exclusion rules,
\* the percentage and the tolerance; in the summary the invoice is then
\* passed iff its five other checks are true, and failed otherwise.
C22_AbsentIsPass ==
    /\ \A k \in DOMAIN results :
          SrcNoCoordination(PyStr(results[k].bill)) =>
              /\ results[k].checks.coordination_correct
              /\ ~results[k].details.coordination.has_coordination
    /\ (pc = "formatted" /\ returned.global_columns_ok) =>
          \A k \in DOMAIN returned.results :
              LET r == returned.results[k]
                  others == \A c \in CheckNames \ {"coordination_correct"} :
                                r.checks[c]
              IN  SrcNoCoordination(PyStr(r.bill)) =>
                      /\ r.bill \in Range(passed_bills) <=> others
                      /\ r.bill \in Range(failed_bills) <=> ~others

\* the summary lists as passed an invoice without a coordination row whose
\* rows carry the code C1 and a Cost that 15 % of the base would not
\* explain, with an exclusion rule loaded
C22_Witness ==
    /\ pc = "formatted"
    /\ returned.global_columns_ok
    /\ exclude_conditions # << >>
    /\ \E k \in DOMAIN returned.results :
          LET r == returned.results[k]
              G == SrcGroup(PyStr(r.bill))
          IN  /\ SrcNoCoordination(PyStr(r.bill))
              /\ \E i \in G : SrcRows[i]["Work code"] = "C1"
              /\ \E i \in G : SrcRows[i]["Work"] = "coordination"
              /\ SrcSum(G) > 0
              /\ r.bill \in Range(passed_bills)

\* ------------------------------------------------------------------------
\* SpecRows: the row numbers of the details, over bill tables whose invoices
\* are interleaved and a work-code reference with incomplete rows
\* ------------------------------------------------------------------------
NumberedRows ==
    { Row("B1", "C1", "Survey", "x", "100", "6",   "6"),
      Row("B2", "C2", "Survey", "x", "100", "6",   "abc"),
      Row("B1", "",   "Survey", "",  "100", "abc", "6"),
      Row("B2", "C1", "",       "x", "",    "6",   "6"),
      Row("B1", "C2", "Survey", "x", "abc", "6",   "6"),
      Row("B2", "C2", "Design", "x", "100", "6",   "6") }

\* a reference with complete and incomplete rows, interleaved
RefMixed ==
    File(PairHeader, << RefRow(PairHeader, "C1", "Survey"),
                        RefRow(PairHeader, "", "Design"),
                        RefRow(PairHeader, "C2", ""),
                        RefRow(PairHeader, "C2", "Design"),
                        RefRow(PairHeader, "", "") >>)

InitRows ==
    /\ BillFrom({AllCols}, NumberedRows, MaxRows)
    /\ InitWith({Missing}, {AllowedAny}, {RefPairs, RefMixed},
                {15}, {10}, {TRUE})

SpecRows == InitRows /\ [][Next]_vars

\* n is the row number of a row of the set G of positions of the bill
\* table that satisfies the test
SrcOwnRow(G, n, Test(_)) == \E i \in G : SrcRowNum(i) = n /\ Test(i)

\* n is the row number of a row of the reference file that satisfies the
\* test
SrcRefRow(n, Test(_)) ==
    \E i \in DOMAIN work_code_csv.rows : SrcRowNum(i) = n /\ Test(i)

\* C23 - Row-number invariant: every row number listed in a per-invoice
\* detail (missing_values, numeric_violations, missing_code, missing_name,
\* invalid_pairs) is the zero-based position in the whole bill table, plus
\* 2, of a row that belongs to the invoice it is reported under and has the
\* defect it is listed for (for Cost under missing_values: no number in the
\* cell); every row number of the reference diagnostics is the zero-based
\* index, plus 2, of a row of the reference file with the defect it is
\* listed for.
C23_RowNumbers ==
    /\ \A k \in DOMAIN results :
          LET G == SrcGroup(PyStr(results[k].bill))
              d == results[k].details
              w == d.work_pair_violations
          IN  /\ \A col \in DOMAIN d.missing_values :
                    \A n \in Range(d.missing_values[col]) :
                        SrcOwnRow(G, n,
                            LAMBDA i : \/ SrcEmpty(i, col)
                                       \/ col = "Cost" /\ ~SrcNumeric(i, col))
              /\ \A col \in DOMAIN d.numeric_violations :
                    \A n \in Range(d.numeric_violations[col]) :
                        SrcOwnRow(G, n,
                            LAMBDA i : ~SrcEmpty(i, col) /\ ~SrcNumeric(i, col))
              /\ \A n \in Range(w.missing_code) :
                    SrcOwnRow(G, n, LAMBDA i : SrcEmpty(i, "Work code"))
              /\ \A n \in Range(w.missing_name) :
                    SrcOwnRow(G, n, LAMBDA i : SrcEmpty(i, "Work"))
              /\ \A key \in DOMAIN w.invalid_pairs :
                    \A n \in Range(w.invalid_pairs[key]) :
                        SrcOwnRow(G, n,
                            LAMBDA i : SrcComplete(i) /\ SrcPairKey(i) = key)
    /\ \A n \in Range(work_code_issues.missing_code_rows) :
          SrcRefRow(n, LAMBDA i : SrcRefCode(i) = "")
    /\ \A n \in Range(work_code_issues.missing_name_rows) :
          SrcRefRow(n, LAMBDA i : SrcRefName(i) = "")
    /\ \A name \in DOMAIN NameWithMultipleCodes :
          \A n \in Range(NameWithMultipleCodes[name].rows) :
              SrcRefRow(n, LAMBDA i : i \in SrcRefFull /\ SrcRefName(i) = name)

\* two interleaved invoices, the second row of the first invoice reported
\* at row 4 in four details and the only row of the second invoice at row
\* 3, with the incomplete rows of the reference reported at rows 3, 4, 6
C23_Witness ==
    /\ pc = "returned"
    /\ Len(SrcRows) = 3
    /\ SrcGroup("B1") = {1, 3}
    /\ Len(results) = 2
    /\ work_code_issues.missing_code_rows = << 3, 6 >>
    /\ work_code_issues.missing_name_rows = << 4, 6 >>
    /\ results[1].details.work_pair_violations.missing_code = << 4 >>
    /\ Listed(results[1].details.missing_values, "Item") = {4}
    /\ Listed(results[1].details.numeric_violations, "Rate per unit") = {4}
    /\ Listed(results[2].details.numeric_violations, "Quantity") = {3}
    /\ Listed(results[2].details.work_pair_violations.invalid_pairs,
              "C2|Survey") = {3}

\* ------------------------------------------------------------------------
\* SpecRules: the loading of the exclusion table, over tables with blank,
\* whitespace-only and padded cells, an absent file and an unreadable file
\* ------------------------------------------------------------------------
RuleRows ==
    { Rule("",      "",    ""),
      Rule(" ",     "",    ""),
      Rule("y",     "",    ""),
      Rule(" abc ", "150", ""),
      Rule("",      "150", "A"),
      Rule("y",     " ",   "A") }

RulesBill ==
    File(AllCols, << Row("B1", "W1", "Survey", "y", "150", "6", "6"),
                     Row("B1", "C",  "Design", "x", "150", "6", "6") >>)

\* exclude_csv is absent, unreadable, or holds at most MaxRefRows rows
InitRules ==
    /\ bill_csv = RulesBill
    /\ \E k \in 0..MaxRefRows : \E rows \in [1..k -> RuleRows] :
          InitWith({Missing, Unreadable, File(RuleCols, rows)},
                   {AllowedAny}, {Missing}, {15}, {10}, {TRUE})

SpecRules == InitRules /\ [][Next]_vars

\* the rule of the i-th row of the exclusion file: the trimmed texts of its
\* non-blank cells
SrcRule(i) ==
    LET row  == exclude_csv.rows[i]
        cols == { c \in Range(exclude_csv.header) : Strip(row[c]) # "" }
    IN  [c \in cols |-> Strip(row[c])]

\* the rules of the rows i, i + 1, ... that have a non-blank cell
RECURSIVE SrcRules(_)
SrcRules(i) ==
    IF i > Len(exclude_csv.rows) THEN << >>
    ELSE (IF DOMAIN SrcRule(i) = {} THEN << >> ELSE << SrcRule(i) >>)
         \o SrcRules(i + 1)

\* C24 - Exclusion-rule loading: once load_exclude_patterns has run, the
\* rule list holds, in file order, one rule for each row of the exclusion
\* table with a non-blank cell, the rule mapping the columns of the row's
\* non-blank cells to their trimmed values; no rule is an empty
\* conjunction; an absent or unreadable file gives the empty list, and the
\* run is not aborted.
C24_RuleLoading ==
    (pc # "load_exclude_patterns" \/ calls > 1) =>
        /\ exclude_conditions
              = IF exclude_csv.exists /\ exclude_csv.readable
                THEN SrcRules(1) ELSE << >>
        /\ \A k \in DOMAIN exclude_conditions :
              DOMAIN exclude_conditions[k] # {}
        /\ pc # "raised"

\* a table of three rows, one blank, one with whitespace only and one
\* with padded cells, has given one rule and the report is returned
C24_Witness ==
    /\ pc = "returned"
    /\ exclude_csv.exists /\ exclude_csv.readable
    /\ Len(exclude_csv.rows) = 3
    /\ exclude_csv.rows[1] = Rule("", "", "")
    /\ exclude_csv.rows[2] = Rule(" ", "", "")
    /\ exclude_csv.rows[3] = Rule(" abc ", "150", "")
    /\ exclude_conditions = << ("Item" :> "abc") @@ ("Cost" :> "150") >>

\* ------------------------------------------------------------------------
\* SpecFrame: the same bill table, allowed-values table and reference under
\* several exclusion files, over bill tables with and without an Item
\* column
\* ------------------------------------------------------------------------
FrameRows ==
    { Row("B1", "W1", "Survey", "x", "1000", "6", "6"),
      Row("B1", "C",  "Design", "x", "150",  "6", "6"),
      Row("B1", "W1", "Survey", "y", "150",  "6", "6"),
      Row("B2", "W1", "Survey", "x", "abc",  "6", "6"),
      Row("B2", "C",  "Design", "y", "0",    "6", "6") }

\* an allowed-values file that does not require Item
NoItemCols == << "Contract Bill No", "Work code", "Work", "Cost" >>

AllowedNoItem == File(NoItemCols, << [c \in Range(NoItemCols) |-> "any"] >>)

FrameExcludes == { Missing, ExcludeItem, ExcludeTwo }

InitFrame ==
    /\ BillFrom({AllCols, Drop(AllCols, {"Item"})}, FrameRows, MaxRows)
    /\ InitWith(FrameExcludes, {AllowedAny, AllowedNoItem}, {Missing},
                {15}, {10}, {TRUE})

SpecFrame == InitFrame /\ [][Next]_vars

\* the rule lists the exclusion files of FrameExcludes load
FrameRuleLists == { load_exclude_patterns(f, << >>) : f \in FrameExcludes }

\* the part of a result that the exclusion rules must not change
FrameOf(r) ==
    [checks  |-> [c \in CheckNames \ {"coordination_correct"} |-> r.checks[c]],
     missing_values       |-> r.details.missing_values,
     allowed_violations   |-> r.details.allowed_violations,
     numeric_violations   |-> r.details.numeric_violations,
     work_pairs_checked   |-> r.details.work_pairs_checked,
     work_pair_violations |-> r.details.work_pair_violations,
     actual_coord         |-> r.details.coordination.actual_coord,
     has_coordination     |-> r.details.coordination.has_coordination]

\* C25 - Exclusion rules affect only the coordination check: for the bill
\* table, allowed-values table and reference of the run, every invoice
\* that has a result under the rules of the run has a result under any
\* other rule list as well, with the same columns_present,
\* no_missing_values, allowed_values, numeric_values and work_pairs_valid
\* outcomes and details and the same actual_coord and has_coordination.
C25_RulesFrame ==
    \A k \in DOMAIN results :
        \A other \in FrameRuleLists :
            LET r == BillResultOn(df, results[k].bill, other)
            IN  /\ r.raised = ""
                /\ FrameOf(r) = FrameOf(results[k])

\* ------------------------------------------------------------------------
\* SpecIndep: one invoice under changes of the cells of the rows of the
\* other invoices, with an allowed-values table that restricts Quantity
\* ------------------------------------------------------------------------
IndepRows ==
    { Row("B1", "W1", "Survey", "x", "100", "6", "6"),
      Row("B1", "C",  "Design", "x", "150", "6", "6"),
      Row("B2", "W1", "Survey", "x", "100", "6", "6"),
      Row("B2", "W1", "Survey", "x", "100", "6", ""),
      Row("B2", "W1", "Survey", "x", "100", "6", "abc"),
      Row("B2", "W1", "Survey", "x", "",    "6", "6") }

InitIndep ==
    /\ BillFrom({AllCols}, IndepRows, MaxRows)
    /\ InitWith({Missing}, {AllowedAny, AllowedQty}, {Missing},
                {15}, {10}, {TRUE})

SpecIndep == InitIndep /\ [][Next]_vars

\* the bill files that differ from bill_csv only in the cells of rows that
\* do not belong to invoice b: every row keeps its position and its
\* invoice id, the rows of b are the same
Variants(b) ==
    { File(bill_csv.header, rows) :
        rows \in { f \in [DOMAIN SrcRows -> IndepRows] :
                     \A i \in DOMAIN SrcRows :
                        /\ f[i]["Contract Bill No"] = SrcRows[i]["Contract Bill No"]
                        /\ i \in SrcGroup(b) => f[i] = SrcRows[i] } }

\* C26 - Invoice independence: the checks and details reported for an
\* invoice are those the same loop body reports for it on any bill table
\* that differs only in the cell contents of the rows of other invoices
\* (same positions, same invoice ids), with the same reference structures.
C26_InvoiceIndependence ==
    \A k \in DOMAIN results :
        \A alt \in Variants(PyStr(results[k].bill)) :
            LET r == BillResultOn(ReadCsv(alt), results[k].bill,
                                  exclude_conditions)
            IN  /\ r.raised = ""
                /\ r.checks = results[k].checks
                /\ r.details = results[k].details

=============================================================================
